---- MODULE Spec2Model ----
(***************************************************************************)
(* Model of src/login/login_new.rs: login_new and the routines it drives   *)
(* (offer_choices_and_login, login_with_password, login_with_sso).         *)
(*                                                                         *)
(* The routine is one sequential async task.  Each action is the code      *)
(* between two suspension points (an awaited network / file call, or a     *)
(* blocking read_line).  Text is modelled as sequences of one-character    *)
(* strings so that trim() and parse::<usize>() are computed, not assumed.  *)
(***************************************************************************)
EXTENDS Integers, Sequences, FiniteSets

VARIABLES
    pc,             \* position of login_new (the next suspension point)
    flows,          \* the flow list the homeserver advertises
    prior,          \* content of the session file before the run
    file,           \* content of the session file
    client_session, \* descriptor returned by build_client
    choices,        \* Vec<LoginChoice> built by login_new
    choice,         \* index picked in offer_choices_and_login (-1: none)
    chosen,         \* the LoginChoice whose login() was invoked
    session,        \* matrix_auth.session() of the client
    line,           \* last line read from stdin
    username,       \* local of login_with_password
    password,       \* local of login_with_password
    submitted,      \* arguments of the last login_username call
    sso_idp,        \* identity_provider_id of the SSO login builder
    pending,        \* serialized session handed to fs::write
    printed,        \* what the last step printed
    result,         \* outcome of login_new
    cnt             \* how often each operation was issued

vars == <<pc, flows, prior, file, client_session, choices, choice, chosen,
          session, line, username, password, submitted, sso_idp, pending,
          printed, result, cnt>>

----------------------------------------------------------------------------
(* Bounds of the model *)

MaxFlows == 2
MaxMenuRetries == 2
MaxRejects == 2

----------------------------------------------------------------------------
(* Data *)

None == "None"

INITIAL_DEVICE_DISPLAY_NAME == "login client"

\* IdentityProvider { id, name } values a server may report
Google == [id |-> "g", name |-> "Google"]
Hub == [id |-> "h", name |-> "Hub"]

NoIdp == [id |-> "", name |-> ""]

IdpLists == { <<>>, <<Google>>, <<Google, Hub>>, <<Hub, Google>>, <<Hub, Hub>> }

\* LoginType as reported by the server
LoginTypes ==
    { [kind |-> "Password", identity_providers |-> <<>>],
      [kind |-> "Token", identity_providers |-> <<>>],
      [kind |-> "ApplicationService", identity_providers |-> <<>>],
      [kind |-> "Unknown", identity_providers |-> <<>>] }
    \cup { [kind |-> "Sso", identity_providers |-> l] : l \in IdpLists }

FlowLists == UNION { [1..n -> LoginTypes] : n \in 0..MaxFlows }

\* enum LoginChoice
Password == [kind |-> "Password", idp |-> NoIdp]
Sso == [kind |-> "Sso", idp |-> NoIdp]
SsoIdp(p) == [kind |-> "SsoIdp", idp |-> p]
NoChoice == [kind |-> "None", idp |-> NoIdp]

ClientSessions == {"cs1", "cs2"}
UserSessions == {"@alice:hs/DEV1", "@bob:hs/DEV2"}
\* content of a file: a sequence of key/value entries (empty: an empty file)
NoSuchFile == << <<"", "no such file">> >>
PriorFiles ==
    { NoSuchFile,
      << <<"client_session", "cs0">>, <<"user_session", "@old:hs/DEV0">>,
         <<"sync_token", "s42">> >> }

\* the decimal text of a menu index
IdxStr(i) ==
    CASE i = 0 -> "0" [] i = 1 -> "1" [] i = 2 -> "2" [] i = 3 -> "3"
      [] i = 4 -> "4" [] i = 5 -> "5" [] i = 6 -> "6" [] i = 7 -> "7"
      [] i = 8 -> "8" [] OTHER -> "9"

\* lines a user may type (read_line keeps the newline; end of input reads "")
MenuLines ==
    { <<IdxStr(i), "\n">> : i \in 0..(2 * MaxFlows) } \cup
    { <<"-", "1", "\n">>, <<"a", "b", "c", "\n">>, <<" ", "1", " ", "\n">>,
      <<"+", "1", "\n">>, <<"0", "1", "\n">>, <<"\n">>, <<>> }
UserLines == { <<"a", "l", "\n">>, <<" ", "b", "o", " ", "\n">>, <<"\n">> }
PassLines == { <<"p", "w", "\n">>, <<"\t", "x", " ", "y", "\n">> }

LoginErrors == {"M_FORBIDDEN", "transport"}

----------------------------------------------------------------------------
(* str::trim and str::parse::<usize> *)

IsWhitespace(c) == c \in {" ", "\n", "\t", "\r"}

RECURSIVE TrimStart(_)
TrimStart(s) ==
    IF s = <<>> THEN s
    ELSE IF IsWhitespace(Head(s)) THEN TrimStart(Tail(s)) ELSE s

RECURSIVE TrimEnd(_)
TrimEnd(s) ==
    IF s = <<>> THEN s
    ELSE IF IsWhitespace(s[Len(s)]) THEN TrimEnd(SubSeq(s, 1, Len(s) - 1)) ELSE s

\* mutant: the line is parsed with its newline
TrimNone(s) == s

Trim(s) == TrimEnd(TrimStart(s))

Digits == {"0", "1", "2", "3", "4", "5", "6", "7", "8", "9"}

DigitVal(c) ==
    CASE c = "0" -> 0 [] c = "1" -> 1 [] c = "2" -> 2 [] c = "3" -> 3
      [] c = "4" -> 4 [] c = "5" -> 5 [] c = "6" -> 6 [] c = "7" -> 7
      [] c = "8" -> 8 [] c = "9" -> 9

RECURSIVE DigitsValue(_, _)
DigitsValue(s, acc) ==
    IF s = <<>> THEN acc ELSE DigitsValue(Tail(s), acc * 10 + DigitVal(Head(s)))

ParseErr == -1

\* usize::from_str: an optional "+", then one or more decimal digits
ParseUsize(s) ==
    LET body == IF s # <<>> /\ Head(s) = "+" THEN Tail(s) ELSE s
    IN  IF body = <<>> THEN ParseErr
        ELSE IF \E i \in 1..Len(body) : body[i] \notin Digits THEN ParseErr
        ELSE DigitsValue(body, 0)

----------------------------------------------------------------------------
(* login_new, lines 64-86: the choices built from the server's flows *)

\* mutant: an SSO flow with providers also offers the bare SSO choice
ChoicesOfLoginTypeBareSso(t) ==
    CASE t.kind = "Password" -> <<Password>>
      [] t.kind = "Sso" ->
            <<Sso>> \o [i \in 1..Len(t.identity_providers) |-> SsoIdp(t.identity_providers[i])]
      [] OTHER -> <<>>

\* mutant: the token flow is offered as an SSO choice
ChoicesOfLoginTypeToken(t) ==
    CASE t.kind = "Password" -> <<Password>>
      [] t.kind = "Sso" ->
            IF t.identity_providers = <<>>
            THEN <<Sso>>
            ELSE [i \in 1..Len(t.identity_providers) |-> SsoIdp(t.identity_providers[i])]
      [] t.kind = "Token" -> <<Sso>>
      [] OTHER -> <<>>

\* login_new, lines 68-85: the choices one reported login type adds
ChoicesOfLoginType(t) ==
    CASE t.kind = "Password" -> <<Password>>
      [] t.kind = "Sso" ->
            IF t.identity_providers = <<>>
            THEN <<Sso>>
            ELSE [i \in 1..Len(t.identity_providers) |-> SsoIdp(t.identity_providers[i])]
      [] OTHER -> <<>>

RECURSIVE PushChoices(_, _)
PushChoices(acc, login_types) ==
    IF login_types = <<>> THEN acc
    ELSE PushChoices(acc \o ChoicesOfLoginType(Head(login_types)), Tail(login_types))

Discover(login_types) == PushChoices(<<>>, login_types)

\* impl fmt::Display for LoginChoice
Display(c) ==
    CASE c.kind = "Password" -> <<"Username and password">>
      [] c.kind = "Sso" -> <<"SSO">>
      [] OTHER -> <<"SSO via ", c.idp.name>>

MenuText(cs) == [i \in 1..Len(cs) |-> <<IdxStr(i - 1), ") ">> \o Display(cs[i])]

\* mutant: the two sessions end up in each other's field
FullSessionSwapped(cs, us) ==
    [client_session |-> us, user_session |-> cs, sync_token |-> None]

\* FullSession { client_session, user_session, sync_token: None }
FullSession(cs, us) ==
    [client_session |-> cs, user_session |-> us, sync_token |-> None]

\* mutant: the user session is written under the key of the client session
to_stringSameKey(fs) ==
    << <<"client_session", fs.client_session>>,
       <<"client_session", fs.user_session>>,
       <<"sync_token", IF fs.sync_token = None THEN "null" ELSE fs.sync_token>> >>

\* serde_json::to_string of a FullSession
to_string(fs) ==
    << <<"client_session", fs.client_session>>,
       <<"user_session", fs.user_session>>,
       <<"sync_token", IF fs.sync_token = None THEN "null" ELSE fs.sync_token>> >>

\* serde_json::from_str::<FullSession>: client_session and user_session are
\* required, sync_token is an Option (null or missing reads as None)
from_str(text) ==
    LET At(k) == { i \in 1..Len(text) : Len(text[i]) = 2 /\ text[i][1] = k }
        Value(k) == text[CHOOSE i \in At(k) : TRUE][2]
    IN  IF At("client_session") = {} \/ At("user_session") = {}
           \/ \E k \in {"client_session", "user_session", "sync_token"} :
                 Cardinality(At(k)) > 1
        THEN [ok |-> FALSE,
              value |-> [client_session |-> "", user_session |-> "", sync_token |-> ""]]
        ELSE [ok |-> TRUE,
              value |-> [client_session |-> Value("client_session"),
                         user_session |-> Value("user_session"),
                         sync_token |-> IF At("sync_token") = {} THEN None
                                        ELSE IF Value("sync_token") = "null" THEN None
                                        ELSE Value("sync_token")]]

----------------------------------------------------------------------------
(* State *)

\* before login_username is called, before the session is serialized
NoRequest == [username |-> <<>>, password |-> <<>>, initial_device_display_name |-> ""]
NoData == <<>>

ZeroCnt ==
    [get_login_types |-> 0, menus |-> 0, menu_reads |-> 0, retry_msgs |-> 0,
     stdin |-> 0,
     pw_prompts |-> 0, pw_reads |-> 0, pw_calls |-> 0, pw_rejects |-> 0,
     sso_calls |-> 0, sso_urls |-> 0, logins |-> 0, session_reads |-> 0,
     writes |-> 0]

Init ==
    /\ pc = "build_client"
    /\ flows \in FlowLists
    /\ prior \in PriorFiles
    /\ file = prior
    /\ client_session = None
    /\ choices = <<>>
    /\ choice = -1
    /\ chosen = NoChoice
    /\ session = None
    /\ line = <<>>
    /\ username = <<>>
    /\ password = <<>>
    /\ submitted = NoRequest
    /\ sso_idp = None
    /\ pending = NoData
    /\ printed = <<>>
    /\ result = "running"
    /\ cnt = ZeroCnt

----------------------------------------------------------------------------
(* Steps of login_new *)

Msg(s) == <<s>>

\* LoginChoice::login: dispatch to the authenticator of the choice
AuthenticatorOf(c) == IF c.kind = "Password" THEN "password" ELSE "sso"

\* mutant: the provider id is not given to the login builder
IdentityProviderIdDropped(c) == None

\* login_with_sso, lines 209-211: the provider id given to the login builder
IdentityProviderId(c) == IF c.kind = "SsoIdp" THEN c.idp.id ELSE None

\* choices[..].login(&client) up to the authenticator's first suspension point:
\* login_with_password waits for the username line, login_with_sso for send()
LoginStart(c, k) ==
    /\ chosen' = c
    /\ IF AuthenticatorOf(c) = "password"
       THEN /\ pc' = "read_username"
            /\ printed' = << Msg("Logging in with username and password..."),
                             Msg("\nUsername: ") >>
            /\ cnt' = [k EXCEPT !.logins = @ + 1, !.pw_prompts = @ + 1]
            /\ sso_idp' = sso_idp
       ELSE /\ pc' = "sso_send"
            /\ printed' = << Msg("Logging in with SSO...") >>
            /\ cnt' = [k EXCEPT !.logins = @ + 1, !.sso_calls = @ + 1]
            /\ sso_idp' = IdentityProviderId(c)

\* login_new, line 60 and the call of get_login_types on line 65
BuildClient ==
    /\ pc = "build_client"
    /\ \/ /\ client_session' \in ClientSessions
          /\ pc' = "get_login_types"
          /\ cnt' = [cnt EXCEPT !.get_login_types = @ + 1]
          /\ result' = result
       \/ /\ client_session' = client_session
          /\ pc' = "done"
          /\ cnt' = cnt
          /\ result' = "Err:build_client"
    /\ UNCHANGED <<flows, prior, file, choices, choice, chosen, session, line,
                   username, password, submitted, sso_idp, pending, printed>>

\* mutant: a single choice is offered in the menu too
ResolutionNoAuto(n) == IF n = 0 THEN "fail" ELSE "offer"

\* login_new, line 88: what the number of choices decides
Resolution(n) == IF n = 0 THEN "fail" ELSE IF n = 1 THEN "auto" ELSE "offer"

OfferText(cs) == MenuText(cs) \o << Msg("\nEnter your choice: ") >>

\* login_new, lines 65-96: get_login_types returns
GetLoginTypesReturn ==
    /\ pc = "get_login_types"
    /\ \/ /\ pc' = "done"
          /\ result' = "Err:get_login_types"
          /\ UNCHANGED <<choices, chosen, sso_idp, printed, cnt>>
       \/ /\ choices' = Discover(flows)
          /\ LET r == Resolution(Len(choices'))
             IN  CASE r = "fail" ->
                        /\ pc' = "done"
                        /\ result' = "Err:NoCompatibleLoginMethod"
                        /\ UNCHANGED <<chosen, sso_idp, printed, cnt>>
                   [] r = "auto" ->
                        /\ LoginStart(choices'[1], cnt)
                        /\ result' = result
                   [] OTHER ->
                        /\ pc' = "read_choice"
                        /\ printed' =
                             << Msg("Several options are available to login with this homeserver:\n") >>
                             \o OfferText(choices')
                        /\ cnt' = [cnt EXCEPT !.menus = @ + 1]
                        /\ UNCHANGED <<chosen, sso_idp, result>>
    /\ UNCHANGED <<flows, prior, file, client_session, choice, session, line,
                   username, password, submitted, pending>>

\* offer_choices_and_login, lines 139-148: does the parsed line end the loop
ChoiceAccepted(parsed, len) == parsed # ParseErr /\ parsed < len

\* offer_choices_and_login, lines 142 and 147
RetryMessage(parsed) ==
    IF parsed = ParseErr
    THEN Msg("This is not a valid choice. Try again.\n")
    ELSE Msg("This is not a valid choice")

\* mutant: choice_str is not emptied between two reads, read_line appends
ChoiceStrAppended(before, l) == before \o l

\* offer_choices_and_login, lines 134-137: choice_str after read_line
ChoiceStr(before, l) == l

\* a counter of the loops: exact while the loops are bounded, and held at the
\* bound when they may go on without end
Tick(n, bound, endless) == IF endless /\ n >= bound THEN n ELSE n + 1

\* offer_choices_and_login, lines 134-151: a line of the menu loop is read
ReadChoiceStep(endless) ==
    /\ pc = "read_choice"
    /\ \E l \in MenuLines :
         LET parsed == ParseUsize(Trim(ChoiceStr(line, l)))
             k == [cnt EXCEPT
                     !.menu_reads = Tick(@, MaxMenuRetries + 1, endless),
                     !.stdin = Tick(@, MaxMenuRetries + 1, endless)]
         IN  /\ line' = l
             /\ IF ChoiceAccepted(parsed, Len(choices))
                THEN /\ choice' = parsed
                     /\ LoginStart(choices[parsed + 1], k)
                ELSE /\ endless \/ cnt.retry_msgs < MaxMenuRetries
                     /\ pc' = "read_choice"
                     /\ printed' = << RetryMessage(parsed) >> \o OfferText(choices)
                     /\ cnt' = [k EXCEPT
                                  !.retry_msgs = Tick(@, MaxMenuRetries, endless),
                                  !.menus = Tick(@, MaxMenuRetries + 1, endless)]
                     /\ UNCHANGED <<choice, chosen, sso_idp>>
    /\ UNCHANGED <<flows, prior, file, client_session, choices, session,
                   username, password, submitted, pending, result>>

ReadChoice == ReadChoiceStep(FALSE)

\* login_with_password, lines 163-170: the username line is read
ReadUsernameStep(endless) ==
    /\ pc = "read_username"
    /\ \E l \in UserLines :
         /\ line' = l
         /\ username' = Trim(l)
    /\ printed' = << Msg("Password: ") >>
    /\ cnt' = [cnt EXCEPT !.pw_reads = Tick(@, 2 * MaxRejects, endless),
                          !.stdin = Tick(@, MaxMenuRetries + 1, endless)]
    /\ pc' = "read_password"
    /\ UNCHANGED <<flows, prior, file, client_session, choices, choice, chosen,
                   session, password, submitted, sso_idp, pending, result>>

ReadUsername == ReadUsernameStep(FALSE)

\* mutant: the two arguments of login_username are swapped
LoginRequestSwapped(u, p) ==
    [username |-> p, password |-> u,
     initial_device_display_name |-> INITIAL_DEVICE_DISPLAY_NAME]

\* login_with_password, lines 177-181: the request sent to the homeserver
LoginRequest(u, p) ==
    [username |-> u, password |-> p,
     initial_device_display_name |-> INITIAL_DEVICE_DISPLAY_NAME]

\* login_with_password, lines 171-181: the password line is read, the call issued
ReadPasswordStep(endless) ==
    /\ pc = "read_password"
    /\ \E l \in PassLines :
         /\ line' = l
         /\ password' = Trim(l)
    /\ submitted' = LoginRequest(username, password')
    /\ printed' = <<>>
    /\ cnt' = [cnt EXCEPT !.pw_reads = Tick(@, 2 * MaxRejects, endless),
                          !.stdin = Tick(@, MaxMenuRetries + 1, endless),
                          !.pw_calls = Tick(@, MaxRejects, endless)]
    /\ pc' = "login_username"
    /\ UNCHANGED <<flows, prior, file, client_session, choices, choice, chosen,
                   session, username, sso_idp, pending, result>>

ReadPassword == ReadPasswordStep(FALSE)

\* mutant: the loop is left on an error too
LoopExitsAlways(res) == TRUE

\* login_with_password, lines 182-191: which results leave the loop
LoopExits(res) == res = "Ok"

\* mutant: a rejected attempt asks the homeserver for its login types again
LoopHeadAtDiscovery == "get_login_types"

\* mutant: a rejected attempt goes back to the menu of choices
LoopHeadAtMenu == "read_choice"

\* login_with_password, line 160: where the loop starts over
LoopHead == "read_username"

\* login_with_password, lines 183-195: login_username returns
LoginUsernameReturnStep(endless, results) ==
    /\ pc = "login_username"
    /\ \E res \in results :
         IF LoopExits(res)
         THEN /\ session' \in IF res = "Ok" THEN UserSessions ELSE {session}
              /\ printed' = IF res = "Ok"
                            THEN << Msg("Logged in as ") \o username >>
                            ELSE <<>>
              /\ pc' = "persist"
              /\ UNCHANGED <<username, password, cnt>>
         ELSE /\ endless \/ cnt.pw_rejects < MaxRejects
              /\ printed' = << <<"Error logging in: ", res>>,
                               Msg("Please try again\n"),
                               Msg("\nUsername: ") >>
              /\ cnt' = [cnt EXCEPT
                           !.pw_rejects = Tick(@, MaxRejects, endless),
                           !.pw_prompts = Tick(@, MaxRejects, endless)]
              /\ username' = <<>>
              /\ password' = <<>>
              /\ pc' = LoopHead
              /\ session' = session
    /\ UNCHANGED <<flows, prior, file, client_session, choices, choice, chosen,
                   line, submitted, sso_idp, pending, result>>

LoginUsernameReturn == LoginUsernameReturnStep(FALSE, {"Ok"} \cup LoginErrors)

\* login_with_sso, lines 201-207: the URL callback given to login_sso
SsoUrlCallback ==
    /\ pc = "sso_send"
    /\ printed' = << <<"\nOpen this URL in your browser: ", "url", "\n">>,
                     Msg("Waiting for login token...") >>
    /\ cnt' = [cnt EXCEPT !.sso_urls = @ + 1]
    /\ pc' = "sso_wait"
    /\ UNCHANGED <<flows, prior, file, client_session, choices, choice, chosen,
                   session, line, username, password, submitted, sso_idp,
                   pending, result>>

\* mutant: the error of send() is dropped
SsoErrorIgnored == FALSE

\* login_with_sso, line 213: what an error of send() does
SsoErrorAborts == TRUE

\* login_with_sso, lines 213-218: send() returns
SsoReturn ==
    /\ \/ /\ pc = "sso_wait"
          /\ session' \in UserSessions
          /\ printed' = << <<"Logged in as ", session'>> >>
          /\ pc' = "persist"
          /\ result' = result
       \/ /\ pc \in {"sso_send", "sso_wait"}
          /\ session' = session
          /\ printed' = <<>>
          /\ IF SsoErrorAborts
             THEN pc' = "done" /\ result' = "Err:login_sso"
             ELSE pc' = "persist" /\ result' = result
    /\ UNCHANGED <<flows, prior, file, client_session, choices, choice, chosen,
                   line, username, password, submitted, sso_idp, pending, cnt>>

\* mutant: the file is created before the session is serialized
FileAfterSerdeErrorCreated(old) == <<>>

\* login_new, lines 105-110: to_string fails before the file is opened
FileAfterSerdeError(old) == old

\* login_new, lines 102-110: the session is read and serialized, the write issued
PersistSession ==
    /\ pc = "persist"
    /\ IF session = None
       THEN /\ pc' = "done"
            /\ result' = "panic:A logged-in client should have a session"
            /\ cnt' = [cnt EXCEPT !.session_reads = @ + 1]
            /\ pending' = pending
       ELSE \/ /\ pending' = to_string(FullSession(client_session, session))
               /\ pc' = "write"
               /\ cnt' = [cnt EXCEPT !.session_reads = @ + 1, !.writes = @ + 1]
               /\ result' = result
            \/ /\ pending' = pending
               /\ pc' = "done"
               /\ cnt' = [cnt EXCEPT !.session_reads = @ + 1]
               /\ result' = "Err:serde_json"
    /\ file' = IF pc' = "done" /\ session # None THEN FileAfterSerdeError(file) ELSE file
    /\ printed' = <<>>
    /\ UNCHANGED <<flows, prior, client_session, choices, choice, chosen,
                   session, line, username, password, submitted, sso_idp>>

\* what a failed fs::write may leave at the path: the old content (the file
\* could not be opened), or the file truncated and a part of the data written
AfterFailedWrite(old, data) ==
    {old} \cup { SubSeq(data, 1, n) : n \in 0..(Len(data) - 1) }

\* mutant: the result of fs::write is dropped
ResultOfWriteIgnored(written) == "Ok"

\* login_new, lines 110-120: the result of login_new once fs::write returned
ResultOfWrite(written) == IF written THEN "Ok" ELSE "Err:fs::write"

\* login_new, lines 110-120: fs::write returns
FsWriteReturn ==
    /\ pc = "write"
    /\ \/ /\ file' = pending
          /\ printed' = << <<"Session persisted in ", "session_file">> >>
          /\ result' = ResultOfWrite(TRUE)
       \/ /\ file' \in AfterFailedWrite(file, pending)
          /\ printed' = IF ResultOfWrite(FALSE) = "Ok"
                        THEN << <<"Session persisted in ", "session_file">> >>
                        ELSE <<>>
          /\ result' = ResultOfWrite(FALSE)
    /\ pc' = "done"
    /\ UNCHANGED <<flows, prior, client_session, choices, choice, chosen,
                   session, line, username, password, submitted, sso_idp,
                   pending, cnt>>

Next ==
    \/ BuildClient
    \/ GetLoginTypesReturn
    \/ ReadChoice
    \/ ReadUsername
    \/ ReadPassword
    \/ LoginUsernameReturn
    \/ SsoUrlCallback
    \/ SsoReturn
    \/ PersistSession
    \/ FsWriteReturn

Spec == Init /\ [][Next]_vars

\* The loops of offer_choices_and_login and login_with_password without a
\* bound on their iterations
NextEndless ==
    \/ BuildClient
    \/ GetLoginTypesReturn
    \/ ReadChoiceStep(TRUE)
    \/ ReadUsernameStep(TRUE)
    \/ ReadPasswordStep(TRUE)
    \/ LoginUsernameReturnStep(TRUE, {"Ok"} \cup LoginErrors)
    \/ SsoUrlCallback
    \/ SsoReturn
    \/ PersistSession
    \/ FsWriteReturn

\* the user types a valid index
SelectValid == ReadChoiceStep(TRUE) /\ pc' # "read_choice"

\* the homeserver accepts the submitted pair
Accepted == LoginUsernameReturnStep(TRUE, {"Ok"})

\* Flow lists for each way through login_new: no choice, one choice of each
\* kind, and several choices
FairFlowLists ==
    [1..1 -> LoginTypes] \cup
    { <<>>,
      << [kind |-> "Password", identity_providers |-> <<>>],
         [kind |-> "Sso", identity_providers |-> <<>>] >>,
      << [kind |-> "Sso", identity_providers |-> <<Google, Hub>>],
         [kind |-> "Token", identity_providers |-> <<>>],
         [kind |-> "Password", identity_providers |-> <<>>] >> }

FairInit == Init /\ flows \in FairFlowLists

\* Every awaited call returns and every read_line gets a line (the task is
\* resumed); the user eventually types a valid index; the homeserver
\* eventually accepts a submitted pair.
FairSpec ==
    /\ FairInit
    /\ [][NextEndless]_vars
    /\ WF_vars(NextEndless)
    /\ WF_vars(SelectValid)
    /\ SF_vars(Accepted)

----------------------------------------------------------------------------
(* Properties *)

\* the phase of login_new a position belongs to
Phase(p) ==
    CASE p \in {"build_client", "get_login_types"} -> 1
      [] p = "read_choice" -> 2
      [] p \in {"read_username", "read_password", "login_username",
                "sso_send", "sso_wait"} -> 3
      [] p \in {"persist", "write"} -> 4
      [] OTHER -> 5

AuthenticatorCalls == cnt.pw_calls + cnt.sso_calls

\* get_login_types has returned its flows to login_new
Discovered ==
    /\ pc \notin {"build_client", "get_login_types"}
    /\ result \notin {"Err:build_client", "Err:get_login_types"}

\* C1: the phases discovery, resolution, authentication, persistence occur in
\* that order and none is re-entered once a later one started; no authenticator
\* call is issued before get_login_types returned and a choice was selected;
\* the session file is not written before an authenticator returned success.
C1_PhaseOrder ==
    [][ /\ Phase(pc') >= Phase(pc)
        /\ (AuthenticatorCalls' > 0 \/ cnt'.pw_prompts > 0) =>
              /\ Discovered'
              /\ cnt'.get_login_types = 1
              /\ chosen' # NoChoice
              /\ Phase(pc') >= 3
        /\ (Phase(pc') = 3 /\ Phase(pc) < 3) => AuthenticatorCalls = 0
        /\ (cnt'.writes > 0 \/ file' # prior) =>
              /\ session' # None
              /\ AuthenticatorCalls' > 0
              /\ Phase(pc') >= 4 ]_vars

C1_Witness ==
    /\ pc = "done"
    /\ result = "Ok"
    /\ cnt.menu_reads > 1
    /\ cnt.pw_rejects > 0

\* C2: whenever login_new asks the client for its user session, the client is
\* authenticated, so the expect on matrix_auth.session() never fails.
C2_SessionPresent ==
    /\ pc = "persist" => session # None
    /\ result # "panic:A logged-in client should have a session"

C2_Witness ==
    /\ pc = "persist"
    /\ session # None
    /\ cnt.pw_rejects > 0

\* the run failed before fs::write was attempted
FailedBeforeWrite ==
    result \in {"Err:build_client", "Err:get_login_types",
                "Err:NoCompatibleLoginMethod", "Err:login_sso"}

\* C3: a run that returns success wrote the session file exactly once; a run
\* that fails before the write attempt (discovery error, no choice, SSO error)
\* never writes it and leaves its prior content.
C3_WrittenOnce ==
    /\ cnt.writes <= 1
    /\ result = "Ok" => cnt.writes = 1 /\ file = pending /\ file # prior
    /\ FailedBeforeWrite => cnt.writes = 0 /\ file = prior
    /\ cnt.writes = 0 => file = prior

C3_Witness ==
    /\ result = "Ok"
    /\ cnt.writes = 1
    /\ prior # NoSuchFile
    /\ chosen.kind = "SsoIdp"

\* C4: when login_new returns Ok, the session file holds the record made of
\* the client session obtained from build_client, the user session of the
\* authenticated client and an absent sync token, whatever it held before.
C4_RecordWritten ==
    result = "Ok" =>
        /\ client_session \in ClientSessions
        /\ session \in UserSessions
        /\ file = << <<"client_session", client_session>>,
                     <<"user_session", session>>,
                     <<"sync_token", "null">> >>

C4_Witness ==
    /\ result = "Ok"
    /\ prior # NoSuchFile
    /\ client_session = "cs2"
    /\ chosen = Password

\* the flow list has no password and no SSO flow
OnlyIgnoredFlows ==
    \A i \in 1..Len(flows) :
        flows[i].kind \in {"Token", "ApplicationService", "Unknown"}

\* C5: with only token, application-service or unknown flows (or none) the
\* run fails with the no-compatible-login-method error at once: nothing is
\* printed, no line is read, no authenticator is called, the file is not
\* written and get_login_types is not called again.
C5_NoCompatibleMethod ==
    OnlyIgnoredFlows =>
        /\ pc \in {"build_client", "get_login_types", "done"}
        /\ result \in {"running", "Err:build_client", "Err:get_login_types",
                       "Err:NoCompatibleLoginMethod"}
        /\ (pc = "done" /\ result # "Err:build_client") => cnt.get_login_types = 1
        /\ cnt.get_login_types <= 1
        /\ printed = <<>>
        /\ cnt.menus = 0
        /\ cnt.pw_prompts = 0
        /\ cnt.stdin = 0
        /\ cnt.logins = 0
        /\ AuthenticatorCalls = 0
        /\ cnt.writes = 0
        /\ file = prior
        /\ session = None

C5_Witness ==
    /\ result = "Err:NoCompatibleLoginMethod"
    /\ Len(flows) = 2
    /\ flows[1].kind = "Token"
    /\ flows[2].kind = "Unknown"

\* number of choices a reported flow stands for
EmitCount(t) ==
    IF t.kind = "Password" THEN 1
    ELSE IF t.kind = "Sso"
         THEN (IF Len(t.identity_providers) = 0 THEN 1 ELSE Len(t.identity_providers))
         ELSE 0

\* number of choices the flows before the i-th stand for
RECURSIVE Offset(_, _)
Offset(fl, i) == IF i <= 1 THEN 0 ELSE Offset(fl, i - 1) + EmitCount(fl[i - 1])

\* C6: the choice list is the concatenation, in server order, of Password for
\* a password flow, Sso for an SSO flow without providers, one SsoIdp per
\* provider in reported order for an SSO flow with providers (and no bare Sso
\* for it), and nothing for token, application-service and unknown flows.
C6_ChoicesFromFlows ==
    Discovered =>
        /\ Len(choices) = Offset(flows, Len(flows) + 1)
        /\ \A i \in 1..Len(flows) :
             LET t == flows[i]
                 o == Offset(flows, i)
                 idps == t.identity_providers
             IN  /\ t.kind = "Password" =>
                        choices[o + 1] = [kind |-> "Password", idp |-> NoIdp]
                 /\ (t.kind = "Sso" /\ Len(idps) = 0) =>
                        choices[o + 1] = [kind |-> "Sso", idp |-> NoIdp]
                 /\ (t.kind = "Sso" /\ Len(idps) > 0) =>
                        \A j \in 1..Len(idps) :
                            choices[o + j] = [kind |-> "SsoIdp", idp |-> idps[j]]

C6_Witness ==
    /\ Discovered
    /\ Len(flows) = 2
    /\ flows[1].kind = "Sso"
    /\ flows[1].identity_providers = <<Hub, Google>>
    /\ flows[2].kind = "Password"
    /\ choices = << [kind |-> "SsoIdp", idp |-> Hub],
                    [kind |-> "SsoIdp", idp |-> Google],
                    [kind |-> "Password", idp |-> NoIdp] >>

\* two choices are the same variant (for a provider choice: the same provider id)
SameVariant(a, b) ==
    /\ a.kind = b.kind
    /\ a.kind = "SsoIdp" => a.idp.id = b.idp.id

\* C7: for a flow list with at least one password or SSO flow the choice list
\* is non-empty and duplicate-free: Password at most once, Sso at most once,
\* at most one SsoIdp per provider id.
C7_DuplicateFree ==
    (Discovered /\ \E i \in 1..Len(flows) : flows[i].kind \in {"Password", "Sso"}) =>
        /\ Len(choices) > 0
        /\ \A i, j \in 1..Len(choices) :
             i < j => ~SameVariant(choices[i], choices[j])

\* C8: a single choice is selected without the menu and without reading a
\* line; the lines read in such a run are read by the password authenticator.
C8_SingleChoice ==
    (Discovered /\ Len(choices) = 1) =>
        /\ pc # "read_choice"
        /\ cnt.menus = 0
        /\ cnt.menu_reads = 0
        /\ cnt.retry_msgs = 0
        /\ choice = -1
        /\ chosen = choices[1]
        /\ cnt.logins = 1
        /\ cnt.stdin = cnt.pw_reads
        /\ cnt.stdin > 0 => chosen.kind = "Password"
        /\ cnt.stdin = 0 => line = <<>>

C8_Witness ==
    /\ Len(choices) = 1
    /\ chosen = [kind |-> "Password", idp |-> NoIdp]
    /\ pc = "read_password"
    /\ cnt.stdin = 1

\* C9: in the menu loop with k >= 2 choices, a line that is no non-negative
\* integer or is >= k ("-1", "abc", "k") gives the retry message and another
\* read, never an error; the first line that parses to i < k ends the loop
\* and the i-th discovered choice is the one logged in with.
C9_MenuLoop ==
    [][ pc = "read_choice" =>
          LET k == Len(choices)
              p == ParseUsize(Trim(line'))
          IN  /\ k >= 2
              /\ choices' = choices
              /\ cnt'.menu_reads = cnt.menu_reads + 1
              /\ IF p # ParseErr /\ p < k
                 THEN /\ choice' = p
                      /\ chosen' = choices[p + 1]
                      /\ cnt'.logins = 1
                      /\ cnt'.retry_msgs = cnt.retry_msgs
                      /\ cnt'.menus = cnt.menus
                      /\ pc' = IF choices[p + 1].kind = "Password"
                               THEN "read_username" ELSE "sso_send"
                 ELSE /\ pc' = "read_choice"
                      /\ result' = "running"
                      /\ choice' = -1
                      /\ chosen' = NoChoice
                      /\ cnt'.logins = 0
                      /\ cnt'.retry_msgs = cnt.retry_msgs + 1
                      /\ cnt'.menus = cnt.menus + 1
                      /\ printed'[1] \in {<<"This is not a valid choice">>,
                                          <<"This is not a valid choice. Try again.\n">>}
              /\ line' \in {<<"-", "1", "\n">>, <<"a", "b", "c", "\n">>,
                            <<IdxStr(k), "\n">>} =>
                    pc' = "read_choice" /\ cnt'.retry_msgs = cnt.retry_msgs + 1
              /\ line' = <<"0", "\n">> =>
                    choice' = 0 /\ chosen' = choices[1] /\ pc' # "read_choice" ]_vars

C9_Witness ==
    /\ Len(choices) >= 2
    /\ cnt.retry_msgs = 2
    /\ cnt.menu_reads = 3
    /\ line = <<" ", "1", " ", "\n">>
    /\ choice = 1
    /\ chosen = choices[2]

\* C10: if the first n submitted pairs are rejected and the next is accepted,
\* the password authenticator prompts n+1 times, issues n+1 calls, each with
\* the pair read in that iteration, ends with success reporting the username
\* of the last attempt, and does not prompt again.
C10_PasswordLoop ==
    chosen.kind = "Password" =>
        /\ cnt.pw_prompts = cnt.pw_rejects + 1
        /\ pc = "read_username" =>
              cnt.pw_calls = cnt.pw_rejects /\ cnt.pw_reads = 2 * cnt.pw_rejects
        /\ pc = "read_password" =>
              /\ cnt.pw_calls = cnt.pw_rejects
              /\ cnt.pw_reads = 2 * cnt.pw_rejects + 1
              /\ username = Trim(line)
        /\ pc = "login_username" =>
              /\ cnt.pw_calls = cnt.pw_rejects + 1
              /\ cnt.pw_reads = 2 * cnt.pw_calls
              /\ submitted = [username |-> username, password |-> Trim(line),
                              initial_device_display_name |-> "login client"]
        /\ pc \in {"persist", "write", "done"} =>
              /\ session # None
              /\ cnt.pw_calls = cnt.pw_rejects + 1
              /\ cnt.pw_reads = 2 * cnt.pw_calls
              /\ submitted.username = username
              /\ pc = "persist" => printed = << <<"Logged in as ">> \o username >>

C10_Witness ==
    /\ chosen.kind = "Password"
    /\ pc = "persist"
    /\ session # None
    /\ cnt.pw_rejects = 2
    /\ cnt.pw_calls = 3
    /\ username = <<"b", "o">>

\* the error of the login_username call that just failed, if one just did
JustFailedWith(e) ==
    /\ Len(printed) = 3
    /\ printed[1] = <<"Error logging in: ", e>>

\* C11: a failed login_username call is retried only if its error is
\* credential-shaped; any other failure ends the run with the error instead
\* of prompting again.
C11_OnlyCredentialRetried ==
    ~(pc = "read_username" /\ cnt.pw_rejects > 0 /\ JustFailedWith("transport"))

\* C12: a failed SSO call (generic or with a provider, auto-selected or picked
\* from the menu) aborts the run with that error: the SSO call is issued once,
\* no other authenticator runs, the menu is not shown again, nothing is written.
C12_SsoFailureAborts ==
    (chosen.kind \in {"Sso", "SsoIdp"} /\ session = None
        /\ pc \notin {"sso_send", "sso_wait"}) =>
        /\ pc = "done"
        /\ result = "Err:login_sso"
        /\ cnt.sso_calls = 1
        /\ cnt.logins = 1
        /\ cnt.pw_prompts = 0
        /\ cnt.pw_calls = 0
        /\ cnt.menus = (IF Len(choices) >= 2 THEN cnt.retry_msgs + 1 ELSE 0)
        /\ cnt.menu_reads = (IF Len(choices) >= 2 THEN cnt.retry_msgs + 1 ELSE 0)
        /\ cnt.session_reads = 0
        /\ cnt.writes = 0
        /\ file = prior

C12_Witness ==
    /\ result = "Err:login_sso"
    /\ chosen = [kind |-> "SsoIdp", idp |-> Hub]
    /\ choice = 1
    /\ cnt.retry_msgs = 1
    /\ cnt.sso_urls = 1

\* C13: at most one authenticator is started, once, and once a choice is
\* resolved it is the one of that choice: Password starts the password loop,
\* Sso the SSO call without a provider id, SsoIdp(p) the SSO call with p.id;
\* a run never starts both a password and an SSO authenticator.
C13_OneAuthenticator ==
    /\ cnt.logins <= 1
    /\ cnt.sso_calls <= 1
    /\ (cnt.logins = 1) <=> (chosen # NoChoice)
    /\ ~(cnt.pw_prompts > 0 /\ cnt.sso_calls > 0)
    /\ chosen = NoChoice =>
          cnt.pw_prompts = 0 /\ AuthenticatorCalls = 0 /\ sso_idp = None
    /\ chosen # NoChoice =>
          /\ Len(choices) = 1 => chosen = choices[1] /\ choice = -1
          /\ Len(choices) >= 2 =>
                choice \in 0..(Len(choices) - 1) /\ chosen = choices[choice + 1]
    /\ chosen.kind = "Password" =>
          /\ cnt.pw_prompts >= 1
          /\ cnt.sso_calls = 0 /\ cnt.sso_urls = 0
          /\ sso_idp = None
    /\ chosen.kind = "Sso" =>
          /\ cnt.sso_calls = 1
          /\ sso_idp = None
          /\ cnt.pw_prompts = 0 /\ cnt.pw_reads = 0 /\ cnt.pw_calls = 0
    /\ chosen.kind = "SsoIdp" =>
          /\ cnt.sso_calls = 1
          /\ sso_idp = chosen.idp.id
          /\ sso_idp \in {"g", "h"}
          /\ cnt.pw_prompts = 0 /\ cnt.pw_reads = 0 /\ cnt.pw_calls = 0

C13_Witness ==
    /\ chosen = [kind |-> "SsoIdp", idp |-> Google]
    /\ sso_idp = "g"
    /\ choice = 2
    /\ pc = "sso_wait"

\* the results login_new returns to its caller
Outcomes ==
    {"Ok", "Err:build_client", "Err:get_login_types",
     "Err:NoCompatibleLoginMethod", "Err:login_sso", "Err:serde_json",
     "Err:fs::write"}

\* C14: if every network call returns, the user eventually enters a valid
\* index and the server eventually accepts a pair, every run of login_new ends,
\* either with success (session persisted, client returned) or with an error
\* returned to the caller.
C14_Terminates ==
    <>[](/\ pc = "done"
         /\ result \in Outcomes
         /\ result = "Ok" => file = pending /\ session # None)

C14_Witness ==
    /\ pc = "done"
    /\ result = "Ok"
    /\ chosen.kind = "Password"
    /\ cnt.retry_msgs = MaxMenuRetries
    /\ cnt.pw_rejects = MaxRejects

FatalErrors == Outcomes \ {"Ok"}

\* C16 as stated: every fatal error is returned with the client not
\* authenticated and the session file as it was before the run.
C16_NoSideEffects ==
    result \in FatalErrors => session = None /\ file = prior

\* C16: an error of build_client, of discovery, of an empty choice list or of
\* SSO is returned with the client not authenticated and the file unchanged;
\* a persistence failure is returned with the client authenticated, the file
\* unchanged after a serialization error and unchanged or holding a part of
\* the record after a failed write.
C16_SideEffectsOfErrors ==
    /\ FailedBeforeWrite => session = None /\ file = prior
    /\ result = "Err:serde_json" => session # None /\ file = prior
    /\ result = "Err:fs::write" =>
          /\ session # None
          /\ \/ file = prior
             \/ \E n \in 0..(Len(pending) - 1) : file = SubSeq(pending, 1, n)
    /\ result \in FatalErrors => pc = "done" /\ file # pending

C16_Witness ==
    /\ result = "Err:fs::write"
    /\ session # None
    /\ file # prior
    /\ Len(file) = 2

\* C17: get_login_types is called once per run, however often the menu loop
\* and the password loop retry; if the call fails the run ends with the error
\* before a choice is built, a prompt shown or an authenticator called.
C17_DiscoveryOnce ==
    /\ cnt.get_login_types =
          (IF pc = "build_client" \/ result = "Err:build_client" THEN 0 ELSE 1)
    /\ pc = "get_login_types" =>
          /\ cnt.stdin = 0 /\ cnt.menus = 0 /\ cnt.logins = 0
          /\ choices = <<>> /\ printed = <<>>
    /\ result = "Err:get_login_types" =>
          /\ pc = "done"
          /\ choices = <<>>
          /\ chosen = NoChoice
          /\ printed = <<>>
          /\ cnt.menus = 0 /\ cnt.stdin = 0 /\ cnt.pw_prompts = 0
          /\ cnt.logins = 0 /\ AuthenticatorCalls = 0
          /\ cnt.writes = 0 /\ file = prior

C17_Witness ==
    /\ pc = "done"
    /\ cnt.get_login_types = 1
    /\ cnt.retry_msgs = 2
    /\ cnt.pw_rejects = 2

\* some printed item contains the text
Mentions(text) ==
    \E i \in 1..Len(printed) :
        \E a \in 1..(Len(printed[i]) + 1) :
            \E b \in (a - 1)..Len(printed[i]) :
                SubSeq(printed[i], a, b) = text

\* C18 as stated: after a failed attempt the error and the submitted username
\* and password are printed, and the loop is retried.
C18_PrintsCredentials ==
    (pc = "read_username" /\ cnt.pw_rejects > 0) =>
        /\ \E e \in LoginErrors : JustFailedWith(e)
        /\ Mentions(submitted.username)
        /\ Mentions(submitted.password)

\* C18: after a failed attempt the error and "Please try again" are printed
\* (not the username or the password), and the same loop is retried.
C18_PrintsErrorAndRetries ==
    [][ (pc = "login_username" /\ pc' # "persist") =>
          /\ pc' = "read_username"
          /\ result' = "running"
          /\ session' = None
          /\ cnt'.pw_rejects = cnt.pw_rejects + 1
          /\ cnt'.pw_prompts = cnt.pw_prompts + 1
          /\ \E e \in {"M_FORBIDDEN", "transport"} :
                printed' = << <<"Error logging in: ", e>>,
                              <<"Please try again\n">>,
                              <<"\nUsername: ">> >>
          /\ ~Mentions(submitted.password)' ]_vars

C18_Witness ==
    /\ pc = "read_username"
    /\ cnt.pw_rejects = 2
    /\ JustFailedWith("M_FORBIDDEN")
    /\ submitted.username = <<"b", "o">>

\* C19: in the menu loop an invalid line changes nothing but the output: the
\* choices, the client and the file stay as they are and no call is issued;
\* the selection made is the one of the first valid line alone.
C19_InvalidLineFrame ==
    [][ pc = "read_choice" =>
          LET p == ParseUsize(Trim(line'))
          IN  IF p = ParseErr \/ p >= Len(choices)
              THEN /\ pc' = "read_choice"
                   /\ UNCHANGED <<flows, prior, file, client_session, choices,
                                  choice, chosen, session, username, password,
                                  submitted, sso_idp, pending, result>>
                   /\ cnt'.get_login_types = cnt.get_login_types
                   /\ cnt'.logins = cnt.logins
                   /\ cnt'.pw_calls = cnt.pw_calls
                   /\ cnt'.sso_calls = cnt.sso_calls
                   /\ cnt'.session_reads = cnt.session_reads
                   /\ cnt'.writes = cnt.writes
              ELSE /\ choice' = p
                   /\ chosen' = choices[p + 1]
                   /\ choices' = choices ]_vars

C19_Witness ==
    /\ Len(choices) >= 2
    /\ cnt.retry_msgs = 2
    /\ line = <<"0", "\n">>
    /\ choice = 0
    /\ chosen = choices[1]
    /\ session = None

====
